---------------------------- MODULE Spec2Model ----------------------------
(***************************************************************************)
(* A model of fio_scenarios/analyze_fdp_results.py: the LatencyAnalyzer    *)
(* class (metadata and latency loading, percentile, throughput and WAF     *)
(* calculation, get_summary), generate_report and main.                    *)
(*                                                                         *)
(* Python values are modelled as follows.                                  *)
(*   - a number is a record [t, n, d, s, q] with t = "int" or "float" and  *)
(*     the rational value n / d (d > 0) in lowest terms; a string has      *)
(*     t = "str" and its text in s;                                        *)
(*   - q tells how n / d relates to the binary64 value the program holds:  *)
(*     "exact" when they are equal, "rounded" when the value is n / d up   *)
(*     to rounding, "lost" when rounded operands cancelled and only the    *)
(*     magnitude of the value is known.  A test on a lost value (== 0,     *)
(*     > 0, min) is decided by roundings outside this model: the operators *)
(*     that model such tests are defined on exact and rounded values only; *)
(*   - numbers are those whose numerator and denominator, and the products *)
(*     formed by the arithmetic, fit a 32-bit integer: inf, nan and        *)
(*     decimal exponents beyond that range have no value here;             *)
(*   - a dict is a function whose DOMAIN is the set of keys present;       *)
(*   - a call that may raise returns [raised, val]: raised = "" on normal  *)
(*     return, otherwise the name of the exception.                        *)
(***************************************************************************)
EXTENDS Integers, Sequences, FiniteSets, TLC

\* ------------------------------------------------------------------ bounds

\* Largest digit used as a metadata value.
MaxMetaVal == 1
\* Largest number of pieces in a generated metadata line.
MaxLineLen == 4
\* Largest number of rows in a generated latency file.
MaxRows == 3
\* Largest latency sample value (one digit).
MaxLat == 1

\* ------------------------------------------------------------ Python values

RECURSIVE Gcd(_, _)
Gcd(a, b) == IF b = 0 THEN a ELSE Gcd(b, a % b)

Abs(x) == IF x < 0 THEN -x ELSE x

Max(x, y) == IF x >= y THEN x ELSE y

\* d is a power of two: n / d in lowest terms is then a binary64 value.
RECURSIVE IsPow2(_)
IsPow2(d) == d = 1 \/ (d % 2 = 0 /\ IsPow2(d \div 2))

\* The number n / d (d > 0) in lowest terms, of type t and quality q.
Number(t, n, d, q) ==
    LET g == Gcd(Abs(n), d)
    IN [t |-> t, n |-> n \div g, d |-> d \div g, s |-> "", q |-> q]

\* The binary64 value n / d is when it is one.
Representable(n, d) == IsPow2(d \div Gcd(Abs(n), d))

PyInt(n) == [t |-> "int", n |-> n, d |-> 1, s |-> "", q |-> "exact"]
\* The float nearest to n / d.
PyFloat(n, d) == Number("float", n, d, IF Representable(n, d) THEN "exact" ELSE "rounded")
PyStr(s) == [t |-> "str", n |-> 0, d |-> 1, s |-> s, q |-> "exact"]

IsNum(v) == v.t \in {"int", "float"}

EmptyDict == [k \in {} |-> PyInt(0)]

\* d[k] = v
Put(d, k, v) == [x \in (DOMAIN d) \cup {k} |-> IF x = k THEN v ELSE d[x]]

\* d.get(k, default)
Get(d, k, default) == IF k \in DOMAIN d THEN d[k] ELSE default

Ok(v) == [raised |-> "", val |-> v]
Raise(e) == [raised |-> e, val |-> PyInt(0)]

\* Arithmetic on numbers.  The result of true division is a float, as is any
\* result with a float operand.  Integers are exact; a float operation rounds
\* its exact result to the nearest binary64 value.
NumT(a, b) == IF a.t = "int" /\ b.t = "int" THEN "int" ELSE "float"

\* The quality the operands leave to a result.
Worst(a, b) ==
    IF a.q = "lost" \/ b.q = "lost" THEN "lost"
    ELSE IF a.q = "exact" /\ b.q = "exact" THEN "exact"
    ELSE "rounded"

\* The result of one operation on a and b whose exact value is n / d.
Result(t, a, b, n, d) ==
    Number(t, n, d, IF Worst(a, b) = "exact" /\ ~Representable(n, d) THEN "rounded"
                    ELSE Worst(a, b))

\* a + b.  Operands of opposite sign, one of them rounded, whose sum is zero or
\* a small fraction of them leave a value made of their rounding errors.
Add(a, b) ==
    LET x == a.n * b.d
        y == b.n * a.d
        r == Result(NumT(a, b), a, b, x + y, a.d * b.d)
        cancels == /\ (x < 0 /\ y > 0) \/ (x > 0 /\ y < 0)
                   /\ Abs(x + y) <= Max(Abs(x), Abs(y)) \div 1024
    IN IF Worst(a, b) = "rounded" /\ cancels THEN [r EXCEPT !.q = "lost"] ELSE r

Sub(a, b) == Add(a, [b EXCEPT !.n = -b.n])

\* a * b: a product with an exact zero is zero.
Mul(a, b) ==
    IF (a.n = 0 /\ a.q = "exact") \/ (b.n = 0 /\ b.q = "exact")
    THEN Number(NumT(a, b), 0, 1, "exact")
    ELSE Result(NumT(a, b), a, b, a.n * b.n, a.d * b.d)

\* a / b for b # 0
Div(a, b) ==
    IF a.n = 0 /\ a.q = "exact" THEN PyFloat(0, 1)
    ELSE IF b.n > 0 THEN Result("float", a, b, a.n * b.d, a.d * b.n)
    ELSE Result("float", a, b, -(a.n * b.d), a.d * (-b.n))

\* Comparison of the values n / d.
Lt(a, b) == a.n * b.d < b.n * a.d
Le(a, b) == a.n * b.d <= b.n * a.d
Eq(a, b) == a.n * b.d = b.n * a.d

\* a == 0 and a > 0 as the program evaluates them.
IsZero(a) == CASE a.q # "lost" -> a.n = 0
IsPos(a) == CASE a.q # "lost" -> a.n > 0

\* min(a, b): b when b < a, otherwise a.
PyMin(a, b) == CASE a.q # "lost" /\ b.q # "lost" -> IF Lt(b, a) THEN b ELSE a

\* ------------------------------------------------------- text of a line

\* A line of metadata.txt is a sequence of pieces.  "=", ".", "-", " " and the
\* digits are one-character pieces; any other piece is a word of letters and
\* inner underscores, "e" and "E" among them.  The text of the line is the
\* concatenation of its pieces.
Digits == {"0", "1", "2", "3", "4", "5", "6", "7", "8", "9"}

DigitVal(c) ==
    CASE c = "0" -> 0 [] c = "1" -> 1 [] c = "2" -> 2 [] c = "3" -> 3
      [] c = "4" -> 4 [] c = "5" -> 5 [] c = "6" -> 6 [] c = "7" -> 7
      [] c = "8" -> 8 [] c = "9" -> 9

DigitStr(i) ==
    CASE i = 0 -> "0" [] i = 1 -> "1" [] i = 2 -> "2" [] i = 3 -> "3"
      [] i = 4 -> "4" [] i = 5 -> "5" [] i = 6 -> "6" [] i = 7 -> "7"
      [] i = 8 -> "8" [] i = 9 -> "9"

RECURSIVE Join(_)
Join(ps) == IF ps = <<>> THEN "" ELSE Head(ps) \o Join(Tail(ps))

\* str.strip(): leading and trailing whitespace removed.
RECURSIVE LStrip(_)
LStrip(ps) == IF ps # <<>> /\ Head(ps) = " " THEN LStrip(Tail(ps)) ELSE ps

RECURSIVE RStrip(_)
RStrip(ps) ==
    IF ps # <<>> /\ ps[Len(ps)] = " " THEN RStrip(SubSeq(ps, 1, Len(ps) - 1)) ELSE ps

Strip(ps) == RStrip(LStrip(ps))

\* '=' in line, '.' in value
Contains(ps, c) == \E i \in 1..Len(ps) : ps[i] = c

\* Position of the first occurrence of c (ps contains c).
FirstIndex(ps, c) == CHOOSE i \in 1..Len(ps) : ps[i] = c /\ \A j \in 1..(i - 1) : ps[j] # c

\* The number a run of digits denotes.
RECURSIVE DigitsVal(_)
DigitsVal(ps) ==
    IF ps = <<>> THEN 0
    ELSE DigitsVal(SubSeq(ps, 1, Len(ps) - 1)) * 10 + DigitVal(ps[Len(ps)])

RECURSIVE Pow10(_)
Pow10(k) == IF k = 0 THEN 1 ELSE 10 * Pow10(k - 1)

AllDigits(ps) == \A i \in 1..Len(ps) : ps[i] \in Digits

\* The text after surrounding whitespace and an optional sign are removed.
Unsigned(ps) ==
    LET b == Strip(ps) IN IF b # <<>> /\ Head(b) = "-" THEN Tail(b) ELSE b

Negative(ps) == LET b == Strip(ps) IN b # <<>> /\ Head(b) = "-"

\* int(value) succeeds: optional whitespace, optional sign, one or more digits.
IntParses(ps) == LET u == Unsigned(ps) IN u # <<>> /\ AllDigits(u)

\* int(value)
IntOf(ps) ==
    LET v == DigitsVal(Unsigned(ps)) IN PyInt(IF Negative(ps) THEN -v ELSE v)

\* The words float() reads as a number: nan, inf and infinity in any case.
NanWords == {a \o b \o c : a \in {"n", "N"}, b \in {"a", "A"}, c \in {"n", "N"}}

InfWords == {a \o b \o c : a \in {"i", "I"}, b \in {"n", "N"}, c \in {"f", "F"}}

InfinityWords ==
    {w \o a \o b \o c \o d \o e :
        w \in InfWords, a \in {"i", "I"}, b \in {"n", "N"}, c \in {"i", "I"},
        d \in {"t", "T"}, e \in {"y", "Y"}}

FloatWords == NanWords \cup InfWords \cup InfinityWords

ExponentMarks == {"e", "E"}

HasExponent(u) == \E i \in 1..Len(u) : u[i] \in ExponentMarks

\* Position of the first exponent mark (u has one).
ExponentIndex(u) ==
    CHOOSE i \in 1..Len(u) : u[i] \in ExponentMarks /\ \A j \in 1..(i - 1) : u[j] \notin ExponentMarks

\* The pieces before the exponent mark, and those after it.
Mantissa(u) == IF HasExponent(u) THEN SubSeq(u, 1, ExponentIndex(u) - 1) ELSE u
Exponent(u) == IF HasExponent(u) THEN SubSeq(u, ExponentIndex(u) + 1, Len(u)) ELSE <<>>

\* The pieces of a mantissa before its '.', and those after it.
IntPart(m) == IF Contains(m, ".") THEN SubSeq(m, 1, FirstIndex(m, ".") - 1) ELSE m
FracPart(m) == IF Contains(m, ".") THEN SubSeq(m, FirstIndex(m, ".") + 1, Len(m)) ELSE <<>>

\* Digits with at most one '.', at least one digit.
MantissaParses(m) ==
    /\ AllDigits(IntPart(m))
    /\ AllDigits(FracPart(m))
    /\ Len(IntPart(m)) + Len(FracPart(m)) >= 1

\* An optional sign and one or more digits.
ExponentParses(e) ==
    LET ds == IF e # <<>> /\ Head(e) = "-" THEN Tail(e) ELSE e
    IN ds # <<>> /\ AllDigits(ds)

\* float(value) succeeds: optional whitespace, optional sign, then one of the
\* words, or a mantissa with an optional exponent.
FloatParses(ps) ==
    LET u == Unsigned(ps) IN
    \/ Len(u) = 1 /\ u[1] \in FloatWords
    \/ /\ MantissaParses(Mantissa(u))
       /\ HasExponent(u) => ExponentParses(Exponent(u))

\* float(value) for a mantissa with an optional exponent.
FloatOf(ps) ==
    LET u == Unsigned(ps)
        m == Mantissa(u)
        e == Exponent(u)
        fp == FracPart(m)
        v == DigitsVal(IntPart(m)) * Pow10(Len(fp)) + DigitsVal(fp)
        sv == IF Negative(ps) THEN -v ELSE v
        down == e # <<>> /\ Head(e) = "-"
        k == DigitsVal(IF down THEN Tail(e) ELSE e)
    IN CASE Len(u) # 1 \/ u[1] \notin FloatWords ->
            IF down THEN PyFloat(sv, Pow10(Len(fp)) * Pow10(k))
            ELSE PyFloat(sv * Pow10(k), Pow10(Len(fp)))

\* A faulty coercion that tries float() on every value, with or without a '.'.
CoerceFloatFirst(value) ==
    IF FloatParses(value) THEN FloatOf(value) ELSE PyStr(Join(value))

\* float(value) if '.' in value else int(value), ValueError giving the string.
Coerce(value) ==
    IF Contains(value, ".")
    THEN IF FloatParses(value) THEN FloatOf(value) ELSE PyStr(Join(value))
    ELSE IF IntParses(value) THEN IntOf(value) ELSE PyStr(Join(value))

\* One iteration of the loop over the lines of metadata.txt.
LoadMetadataLine(metadata, line) ==
    IF Contains(line, "=")
    THEN LET stripped == Strip(line)
             i == FirstIndex(stripped, "=")
             key == SubSeq(stripped, 1, i - 1)
             value == SubSeq(stripped, i + 1, Len(stripped))
         IN Put(metadata, Join(key), Coerce(value))
    ELSE metadata

RECURSIVE LoadMetadataLines(_, _)
LoadMetadataLines(metadata, lines) ==
    IF lines = <<>> THEN metadata
    ELSE LoadMetadataLines(LoadMetadataLine(metadata, Head(lines)), Tail(lines))

\* LatencyAnalyzer._load_metadata: file is [exists, lines].
_load_metadata(file) ==
    IF file.exists THEN LoadMetadataLines(EmptyDict, file.lines) ELSE EmptyDict

\* ------------------------------------------------------- run directory

\* A run directory is [exists, files]: files maps the name of each file present
\* to its content.  metadata.txt holds a sequence of lines; a latency file holds
\* a sequence of rows, each a sequence of one-piece tokens.
MetadataFile == "metadata.txt"

Phases == <<"warmup", "victim_write", "noisy_write", "overwrite", "victim_read">>

\* lat_files
LatFile(phase) == phase \o "_latencies.txt"

FileExists(dir, name) == dir.exists /\ name \in DOMAIN dir.files

\* The file object _load_metadata reads.
MetadataOf(dir) ==
    IF FileExists(dir, MetadataFile)
    THEN [exists |-> TRUE, lines |-> dir.files[MetadataFile]]
    ELSE [exists |-> FALSE, lines |-> <<>>]

\* ------------------------------------------------------------- np.loadtxt

\* An array is [shape, data]: data holds the elements in row-major order.
EmptyArray == [shape |-> <<0>>, data |-> <<>>]

Size(a) == Len(a.data)

RECURSIVE Flatten(_)
Flatten(rows) == IF rows = <<>> THEN <<>> ELSE Head(rows) \o Flatten(Tail(rows))

\* Blank lines are skipped.
NonBlank(rows) == SelectSeq(rows, LAMBDA r : r # <<>>)

\* The token is a number.  A token is one piece: a digit is a number, and a
\* piece that is neither a digit nor one of the words float() reads is none.
TokenParses(tok) ==
    CASE tok \in Digits -> TRUE
      [] tok \notin Digits \cup FloatWords -> FALSE

\* np.loadtxt(filepath) with the default ndmin = 0: a token that is no number,
\* or rows of different lengths, raise ValueError; the result is squeezed, so a
\* file of one value gives a 0-d array, one row or one column a 1-d array.
loadtxt(rows) ==
    LET rs == NonBlank(rows)
        R == Len(rs)
        flat == Flatten(rs)
    IN IF \E i \in 1..Len(flat) : ~TokenParses(flat[i]) THEN Raise("ValueError")
       ELSE IF R = 0 THEN Ok(EmptyArray)
       ELSE IF \E i \in 1..R : Len(rs[i]) # Len(rs[1]) THEN Raise("ValueError")
       ELSE LET C == Len(rs[1])
                data == [i \in 1..Len(flat) |-> DigitVal(flat[i])]
                shape == IF R = 1 /\ C = 1 THEN <<>>
                         ELSE IF R = 1 THEN <<C>>
                         ELSE IF C = 1 THEN <<R>>
                         ELSE <<R, C>>
            IN Ok([shape |-> shape, data |-> data])

\* A faulty loop body that swallows the parse failure and keeps an empty array.
LoadPhaseSwallowingErrors(dir, phase) ==
    IF FileExists(dir, LatFile(phase))
    THEN LET r == loadtxt(dir.files[LatFile(phase)])
         IN IF r.raised # "" THEN Ok(EmptyArray)
            ELSE IF Size(r.val) > 0 THEN r ELSE Ok(EmptyArray)
    ELSE Ok(EmptyArray)

\* The body of the loop of _load_latencies for one phase.
LoadPhase(dir, phase) ==
    IF FileExists(dir, LatFile(phase))
    THEN LET r == loadtxt(dir.files[LatFile(phase)])
         IN IF r.raised # "" THEN r
            ELSE IF Size(r.val) > 0 THEN r ELSE Ok(EmptyArray)
    ELSE Ok(EmptyArray)

\* The index in Phases of the first phase whose file fails to load, 0 if none.
FirstBadPhase(dir) ==
    IF \E i \in 1..Len(Phases) : LoadPhase(dir, Phases[i]).raised # ""
    THEN CHOOSE i \in 1..Len(Phases) :
            /\ LoadPhase(dir, Phases[i]).raised # ""
            /\ \A j \in 1..(i - 1) : LoadPhase(dir, Phases[j]).raised = ""
    ELSE 0

\* LatencyAnalyzer._load_latencies
_load_latencies(dir) ==
    LET b == FirstBadPhase(dir)
    IN IF b # 0 THEN Raise(LoadPhase(dir, Phases[b]).raised)
       ELSE Ok([p \in {Phases[i] : i \in 1..Len(Phases)} |-> LoadPhase(dir, p).val])

\* LatencyAnalyzer.__init__
LatencyAnalyzer(dir) ==
    LET metadata == _load_metadata(MetadataOf(dir))
        lat == _load_latencies(dir)
    IN IF lat.raised # "" THEN Raise(lat.raised)
       ELSE Ok([metadata |-> metadata, latencies |-> lat.val])

\* The files LatencyAnalyzer(dir) opens: metadata.txt and the latency files up
\* to the first that fails to load.
FilesOpened(dir) ==
    LET b == FirstBadPhase(dir)
        last == IF b = 0 THEN Len(Phases) ELSE b
    IN {n \in {MetadataFile} \cup {LatFile(Phases[i]) : i \in 1..last} : FileExists(dir, n)}

\* ------------------------------------------------------------ statistics

RECURSIVE Insert(_, _)
Insert(x, s) ==
    IF s = <<>> THEN <<x>>
    ELSE IF x <= Head(s) THEN <<x>> \o s
    ELSE <<Head(s)>> \o Insert(x, Tail(s))

RECURSIVE Sort(_)
Sort(s) == IF s = <<>> THEN <<>> ELSE Insert(Head(s), Sort(Tail(s)))

RECURSIVE Sum(_)
Sum(s) == IF s = <<>> THEN 0 ELSE Head(s) + Sum(Tail(s))

\* np.percentile(data, qn / qd): linear interpolation between the two closest
\* ranks of the sorted, flattened data.  The rank and the weight are computed
\* in floats: the result is exact between equal neighbours and at the median.
Percentile(data, qn, qd) ==
    LET a == Sort(data)
        N == Len(a)
        D == 100 * qd
        k == (N - 1) * qn
        lo == k \div D
        rem == k % D
        x == a[lo + 1]
        y == a[IF lo + 2 <= N THEN lo + 2 ELSE N]
    IN IF x = y \/ qn = 50 * qd THEN PyFloat(x * D + rem * (y - x), D)
       ELSE Number("float", x * D + rem * (y - x), D, "rounded")

\* np.median(data)
Median(data) ==
    LET a == Sort(data)
        N == Len(a)
    IN IF N % 2 = 1 THEN PyFloat(a[(N + 1) \div 2], 1)
       ELSE PyFloat(a[N \div 2] + a[N \div 2 + 1], 2)

StatKeys == {"count", "min", "max", "mean", "median", "p50", "p95", "p99", "p99.9", "p99.99"}

\* LatencyAnalyzer.calculate_percentiles: len() of a 0-d array raises TypeError.
calculate_percentiles(data) ==
    IF Size(data) = 0 THEN Ok([k \in StatKeys |-> PyInt(0)])
    ELSE IF data.shape = <<>> THEN Raise("TypeError")
    ELSE LET a == Sort(data.data) IN
         Ok([k \in StatKeys |->
               CASE k = "count" -> PyInt(data.shape[1])
                 [] k = "min" -> PyFloat(a[1], 1)
                 [] k = "max" -> PyFloat(a[Len(a)], 1)
                 [] k = "mean" -> PyFloat(Sum(a), Len(a))
                 [] k = "median" -> Median(data.data)
                 [] k = "p50" -> Percentile(data.data, 50, 1)
                 [] k = "p95" -> Percentile(data.data, 95, 1)
                 [] k = "p99" -> Percentile(data.data, 99, 1)
                 [] k = "p99.9" -> Percentile(data.data, 999, 10)
                 [] k = "p99.99" -> Percentile(data.data, 9999, 100)])

\* The warmup half of calculate_throughput, given the dict built so far.
WarmupThroughput(metadata) ==
    LET wd == Get(metadata, "warmup_duration", PyInt(0))
    IN IF ~IsNum(wd) THEN Raise("TypeError")
       ELSE IF ~IsPos(wd) THEN Ok(EmptyDict)
       ELSE IF "warmup_ops" \notin DOMAIN metadata THEN Raise("KeyError")
       ELSE IF ~IsNum(metadata["warmup_ops"]) THEN Raise("TypeError")
       ELSE Ok(Put(EmptyDict, "warmup_iops", Div(metadata["warmup_ops"], wd)))

\* The overwrite half of calculate_throughput.
OverwriteThroughput(metadata, throughput) ==
    LET od == Get(metadata, "overwrite_duration", PyInt(0))
        vr == Get(metadata, "victim_reads", PyInt(0))
    IN IF ~IsNum(od) THEN Raise("TypeError")
       ELSE IF ~IsPos(od) THEN Ok(throughput)
       ELSE IF "overwrites" \notin DOMAIN metadata THEN Raise("KeyError")
       ELSE IF ~IsNum(metadata["overwrites"]) \/ ~IsNum(vr) THEN Raise("TypeError")
       ELSE Ok(Put(throughput, "overwrite_iops", Div(Add(metadata["overwrites"], vr), od)))

\* LatencyAnalyzer.calculate_throughput
calculate_throughput(metadata) ==
    LET w == WarmupThroughput(metadata)
    IN IF w.raised # "" THEN w ELSE OverwriteThroughput(metadata, w.val)

\* A faulty estimate that leaves out the base 1.0 of the heuristic.
calculate_waf_without_base(metadata) ==
    LET warmup_ops == Get(metadata, "warmup_ops", PyInt(0))
        victim_writes == Get(metadata, "victim_writes", PyInt(0))
        noisy_writes == Get(metadata, "noisy_writes", PyInt(0))
        overwrites == Get(metadata, "overwrites", PyInt(0))
        host_writes == Add(Add(Add(warmup_ops, victim_writes), noisy_writes), overwrites)
    IN IF \E v \in {warmup_ops, victim_writes, noisy_writes, overwrites} : ~IsNum(v)
       THEN Raise("TypeError")
       ELSE IF IsZero(host_writes) THEN Ok(PyFloat(1, 1))
       ELSE IF IsPos(overwrites)
       THEN LET overwrite_ratio == Div(overwrites, host_writes)
                estimated_waf == Mul(overwrite_ratio, PyFloat(25, 10))
            IN Ok(PyMin(estimated_waf, PyFloat(5, 1)))
       ELSE Ok(PyFloat(1, 1))

\* LatencyAnalyzer.calculate_waf
calculate_waf(metadata) ==
    LET warmup_ops == Get(metadata, "warmup_ops", PyInt(0))
        victim_writes == Get(metadata, "victim_writes", PyInt(0))
        noisy_writes == Get(metadata, "noisy_writes", PyInt(0))
        overwrites == Get(metadata, "overwrites", PyInt(0))
        host_writes == Add(Add(Add(warmup_ops, victim_writes), noisy_writes), overwrites)
    IN IF \E v \in {warmup_ops, victim_writes, noisy_writes, overwrites} : ~IsNum(v)
       THEN Raise("TypeError")
       ELSE IF IsZero(host_writes) THEN Ok(PyFloat(1, 1))
       ELSE IF IsPos(overwrites)
       THEN LET overwrite_ratio == Div(overwrites, host_writes)
                estimated_waf == Add(PyFloat(1, 1), Mul(overwrite_ratio, PyFloat(25, 10)))
            IN Ok(PyMin(estimated_waf, PyFloat(5, 1)))
       ELSE Ok(PyFloat(1, 1))

\* The loop of get_summary over self.latencies, phases i..5, given the dict
\* built so far.
RECURSIVE SummaryLatencies(_, _, _)
SummaryLatencies(latencies, i, acc) ==
    IF i > Len(Phases) THEN Ok(acc)
    ELSE IF Size(latencies[Phases[i]]) > 0
    THEN LET st == calculate_percentiles(latencies[Phases[i]])
         IN IF st.raised # "" THEN Raise(st.raised)
            ELSE SummaryLatencies(latencies, i + 1, Put(acc, Phases[i], st.val))
    ELSE SummaryLatencies(latencies, i + 1, acc)

\* LatencyAnalyzer.get_summary
get_summary(self) ==
    LET tp == calculate_throughput(self.metadata)
        waf == calculate_waf(self.metadata)
        lat == SummaryLatencies(self.latencies, 1, EmptyDict)
    IN IF tp.raised # "" THEN Raise(tp.raised)
       ELSE IF waf.raised # "" THEN Raise(waf.raised)
       ELSE IF lat.raised # "" THEN Raise(lat.raised)
       ELSE Ok([test_name |-> Get(self.metadata, "test_name", PyStr("Unknown")),
                duration |-> Get(self.metadata, "test_duration", PyInt(0)),
                throughput |-> tp.val,
                waf |-> waf.val,
                latencies |-> lat.val])

\* --------------------------------------------------------- generate_report

\* One f.write call: its kind, the metric or title it names and the values
\* handed to its format fields.
ReportLine(kind, metric, a, b, c) == [kind |-> kind, metric |-> metric, a |-> a, b |-> b, c |-> c]

Text(kind, text) == ReportLine(kind, text, PyInt(0), PyInt(0), PyInt(0))

Metrics == <<"mean", "median", "p50", "p95", "p99", "p99.9", "p99.99">>

\* ((x - y) / x) * 100 for x # 0
Improvement(x, y) == Mul(Div(Sub(x, y), x), PyInt(100))

\* The rows the loop over the metrics writes, from metric i on.
RECURSIVE TableRows(_, _, _)
TableRows(no_fdp, fdp, i) ==
    IF i > Len(Metrics) THEN <<>>
    ELSE LET metric == Metrics[i]
             nf == Get(no_fdp, metric, PyInt(0))
             f_val == Get(fdp, metric, PyInt(0))
         IN (IF IsPos(nf)
             THEN <<ReportLine("row", metric, nf, f_val, Improvement(nf, f_val))>>
             ELSE <<>>) \o TableRows(no_fdp, fdp, i + 1)

\* The header and test configurations, and the title of the victim read section.
ReportHead(no_fdp_summary, fdp_summary) ==
    << Text("rule", "="), Text("title", "FDP QoS ANALYSIS REPORT"), Text("rule", "="),
       Text("title", "TEST CONFIGURATIONS"), Text("rule", "-"),
       ReportLine("config", "Test 1 (NO FDP)", no_fdp_summary.duration, no_fdp_summary.waf, PyInt(0)),
       ReportLine("config", "Test 2 (WITH FDP)", fdp_summary.duration, fdp_summary.waf, PyInt(0)),
       Text("title", "VICTIM READ LATENCIES (Primary QoS Metric)"), Text("rule", "-") >>

\* if 'victim_read' in no_fdp_summary['latencies'] and 'victim_read' in fdp_summary['latencies']
BothHaveVictimRead(no_fdp_summary, fdp_summary) ==
    /\ "victim_read" \in DOMAIN no_fdp_summary.latencies
    /\ "victim_read" \in DOMAIN fdp_summary.latencies

\* The percentile table: the block that binds the locals no_fdp and fdp.
ReportTable(no_fdp_summary, fdp_summary) ==
    IF BothHaveVictimRead(no_fdp_summary, fdp_summary)
    THEN << Text("table_header", "Metric"), Text("rule", "-") >>
         \o TableRows(no_fdp_summary.latencies["victim_read"],
                      fdp_summary.latencies["victim_read"], 1)
         \o << Text("blank", "") >>
    ELSE <<>>

\* The throughput section: [raised, lines].
ReportThroughput(no_fdp_summary, fdp_summary) ==
    LET head == << Text("title", "THROUGHPUT"), Text("rule", "-") >>
    IN IF "overwrite_iops" \in DOMAIN no_fdp_summary.throughput
       THEN IF "overwrite_iops" \notin DOMAIN fdp_summary.throughput
            THEN [raised |-> "KeyError", lines |-> head]
            ELSE [raised |-> "", lines |-> head \o
                  << ReportLine("iops", "Overwrite Phase IOPS (NO FDP)",
                                no_fdp_summary.throughput["overwrite_iops"], PyInt(0), PyInt(0)),
                     ReportLine("iops", "Overwrite Phase IOPS (WITH FDP)",
                                fdp_summary.throughput["overwrite_iops"], PyInt(0), PyInt(0)) >>]
       ELSE [raised |-> "", lines |-> head]

\* The WAF section: [raised, lines].
ReportWaf(no_fdp_summary, fdp_summary) ==
    LET head == << Text("title", "WRITE AMPLIFICATION FACTOR (WAF)"), Text("rule", "-") >>
    IN IF IsZero(no_fdp_summary.waf)
       THEN [raised |-> "ZeroDivisionError", lines |-> head]
       ELSE [raised |-> "", lines |-> head \o
             << ReportLine("waf", "WAF (NO FDP)", no_fdp_summary.waf, PyInt(0), PyInt(0)),
                ReportLine("waf", "WAF (WITH FDP)", fdp_summary.waf, PyInt(0), PyInt(0)),
                ReportLine("reduction", "Reduction",
                           Improvement(no_fdp_summary.waf, fdp_summary.waf), PyInt(0), PyInt(0)) >>]

\* if 'victim_read' in no_fdp_summary['latencies']
KeyFindingsGuard(no_fdp_summary, fdp_summary) ==
    "victim_read" \in DOMAIN no_fdp_summary.latencies

\* The key findings section: [raised, lines].  The locals no_fdp and fdp are
\* bound only when the percentile table was written.
ReportKeyFindings(no_fdp_summary, fdp_summary) ==
    LET head == << Text("title", "KEY FINDINGS"), Text("rule", "-") >>
    IN IF KeyFindingsGuard(no_fdp_summary, fdp_summary)
       THEN IF ~BothHaveVictimRead(no_fdp_summary, fdp_summary)
            THEN [raised |-> "UnboundLocalError", lines |-> head]
            ELSE LET no_fdp == no_fdp_summary.latencies["victim_read"]
                     fdp == fdp_summary.latencies["victim_read"]
                 IN IF IsZero(no_fdp["p99"])
                    THEN [raised |-> "ZeroDivisionError", lines |-> head]
                    ELSE [raised |-> "", lines |-> head \o
                          << ReportLine("p99_finding", "P99 latency improved by",
                                        Improvement(no_fdp["p99"], fdp["p99"]), PyInt(0), PyInt(0)),
                             Text("finding", "FDP isolation reduces tail latency significantly"),
                             Text("finding", "Victim workload protected from noisy neighbor GC") >>]
       ELSE [raised |-> "", lines |-> head]

\* generate_report: [raised, lines], lines being what analysis_report.txt holds
\* when the with block is left.
generate_report(no_fdp_summary, fdp_summary) ==
    LET l1 == ReportHead(no_fdp_summary, fdp_summary) \o ReportTable(no_fdp_summary, fdp_summary)
        tp == ReportThroughput(no_fdp_summary, fdp_summary)
        waf == ReportWaf(no_fdp_summary, fdp_summary)
        kf == ReportKeyFindings(no_fdp_summary, fdp_summary)
    IN IF tp.raised # "" THEN [raised |-> tp.raised, lines |-> l1 \o tp.lines]
       ELSE IF waf.raised # "" THEN [raised |-> waf.raised, lines |-> l1 \o tp.lines \o waf.lines]
       ELSE IF kf.raised # ""
       THEN [raised |-> kf.raised, lines |-> l1 \o tp.lines \o waf.lines \o kf.lines]
       ELSE [raised |-> "", lines |-> l1 \o tp.lines \o waf.lines \o kf.lines
                                      \o << Text("rule", "=") >>]

\* ---------------------------------------------------------------- inputs

Absent == [present |-> FALSE, content |-> <<>>]
File(content) == [present |-> TRUE, content |-> content]

\* An existing directory holding the files chosen present.
MakeDir(choices) ==
    [exists |-> TRUE,
     files |-> [n \in {m \in DOMAIN choices : choices[m].present} |-> choices[n].content]]

MissingDir == [exists |-> FALSE, files |-> [n \in {} |-> <<>>]]

MetaKeys == <<"warmup_ops", "warmup_duration", "victim_writes", "noisy_writes",
              "overwrites", "overwrite_duration", "victim_reads">>

\* The lines key=digit for the keys i..7 that f gives a value >= 0.
RECURSIVE MetaLines(_, _)
MetaLines(f, i) ==
    IF i > Len(MetaKeys) THEN <<>>
    ELSE (IF f[i] >= 0 THEN << <<MetaKeys[i], "=", DigitStr(f[i])>> >> ELSE <<>>)
         \o MetaLines(f, i + 1)

\* Every metadata.txt giving each key a one-digit value or leaving it out.
NumericMetaFiles == {MetaLines(f, 1) : f \in [1..Len(MetaKeys) -> -1..MaxMetaVal]}

\* Files with float, string and negative values, and those of the documented
\* scenarios.
SpecialMetaFiles ==
    { << <<"warmup_ops", "=", "1", "0", "0", "0">>, <<"warmup_duration", "=", "1", "0">> >>,
      << <<"overwrites", "=", "1", "0", "0", "0">>, <<"overwrite_duration", "=", "1", "0">>,
         <<"warmup_ops", "=", "0">>, <<"warmup_duration", "=", "0">> >>,
      << <<"overwrites", "=", "2", ".", "5">>, <<"overwrite_duration", "=", "0", ".", "5">>,
         <<"test_duration", "=", "6", "0">> >>,
      << <<"overwrites", "=", "many">>, <<"overwrite_duration", "=", "1">> >>,
      << <<"warmup_duration", "=", "long">> >>,
      << <<"victim_writes", "=", "some">> >>,
      << <<"overwrites", "=", "5">>, <<"warmup_ops", "=", "-", "7">> >>,
      << <<"overwrites", "=", "0", ".", "1">>, <<"warmup_ops", "=", "0", ".", "2">>,
         <<"overwrite_duration", "=", "2", ".", "5", "e", "-", "1">> >>,
      << <<"overwrites", "=", "5">>, <<"warmup_ops", "=", "-", "4">> >>,
      << <<"test_name", "=", "run", "1">>, <<"warmup_ops", "=", "5", "0", "0">>,
         <<"warmup_duration", "=", "5", ".", "0">> >> }

Alphabet == {"=", ".", "-", " ", "5", "k", "e"}

\* Every line of at most MaxLineLen pieces of the alphabet.
GeneratedLines == UNION {[1..n -> Alphabet] : n \in 0..MaxLineLen}

\* Lines whose value has an exponent, well formed or not.
ExponentLines ==
    { <<"k", "=", "1", ".", "5", "e", "3">>, <<"k", "=", "1", ".", "E", "2">>,
      <<"k", "=", "5", ".", "e", "-", "1">>, <<"k", "=", ".", "5", "E", "1">>,
      <<"k", "=", "1", "e", "5">>, <<"k", "=", "1", ".", "5", "e">>,
      <<"k", "=", "1", ".", "5", "e", "-">>, <<"k", "=", ".", "e", "1">> }

\* One-line files, and two-line files whose lines repeat or skip a key.
GeneratedMetaFiles ==
    {<<l>> : l \in GeneratedLines \cup ExponentLines}
    \cup {<<a, b>> : a, b \in {<<"k", "=", "5">>, <<"k", "=", ".", "5">>, <<"k", "=", "k">>,
                               <<"k">>, <<"5", "=", "k", "=", "5">>}}

LatTokens == {DigitStr(i) : i \in 0..MaxLat}

\* Latency files of one value per line, lo..MaxRows lines.
ColumnFiles(lo) ==
    UNION {{[i \in 1..n |-> <<t[i]>>] : t \in [1..n -> LatTokens]} : n \in lo..MaxRows}

\* Latency files of two lines, one value each.
TwoRowFiles == {<< <<a>>, <<b>> >> : a, b \in LatTokens}

EmptyFile == <<>>
MalformedFile == << <<"1">>, <<"x">> >>
RowFile == << <<"0", "1">> >>
GridFile == << <<"0", "1">>, <<"1", "0">> >>
RaggedFile == << <<"0">>, <<"0", "1">> >>
BlankLineFile == << <<"1">>, <<>>, <<"1">> >>

LatChoices ==
    {Absent} \cup {File(c) : c \in ColumnFiles(1)
                     \cup {EmptyFile, MalformedFile, RowFile, GridFile, RaggedFile, BlankLineFile}}

OverwriteMeta == << <<"overwrites", "=", "1">>, <<"overwrite_duration", "=", "1">> >>
WarmupMeta == << <<"warmup_ops", "=", "1">>, <<"warmup_duration", "=", "1">> >>

MetaChoices == {Absent, File(OverwriteMeta), File(WarmupMeta)}

\* The directories a LatencyAnalyzer is built on.
AnalyzerDirs ==
    {MakeDir(MetadataFile :> File(m)) :
        m \in NumericMetaFiles \cup SpecialMetaFiles \cup GeneratedMetaFiles}
    \cup {MakeDir((LatFile("victim_read") :> v) @@ (LatFile("overwrite") :> w)) :
            v \in LatChoices, w \in {Absent, File(RowFile), File(MalformedFile)}}
    \cup {MissingDir}

\* The directories main is run on.
MainDirs ==
    {MakeDir((MetadataFile :> m) @@ (LatFile("victim_read") :> v) @@ (LatFile("warmup") :> w)) :
        m \in MetaChoices,
        v \in {Absent, File(EmptyFile), File(<< <<"1">> >>), File(MalformedFile)}
              \cup {File(c) : c \in TwoRowFiles},
        w \in {Absent, File(MalformedFile)}}
    \cup {MissingDir}

\* The directories whose summaries generate_report is called on.
ReportDirs ==
    {d \in {MakeDir((MetadataFile :> m) @@ (LatFile("victim_read") :> v)) :
              m \in MetaChoices,
              v \in {Absent, File(EmptyFile), File(RowFile), File(GridFile)}
                    \cup {File(c) : c \in ColumnFiles(2)}} :
        get_summary(LatencyAnalyzer(d).val).raised = ""}

\* ------------------------------------------------------------------ state

VARIABLES
    pc,              \* the statement about to run
    argc,            \* len(sys.argv)
    dirs,            \* the directories sys.argv[1] and sys.argv[2] name
    no_fdp, fdp,     \* the two LatencyAnalyzer objects
    no_fdp_summary, fdp_summary,
    output_dir,      \* analysis_results was created by this run
    artifacts,       \* the files this run wrote into output_dir
    report,          \* what analysis_report.txt holds
    opened,          \* the input files this run opened, as <<directory, name>>
    raised,          \* the uncaught exception, "" if none
    exit_code,       \* the exit status, -1 while running
    ret              \* the last method called directly, and what it returned

vars == <<pc, argc, dirs, no_fdp, fdp, no_fdp_summary, fdp_summary, output_dir,
          artifacts, report, opened, raised, exit_code, ret>>

Unbound == [raised |-> "unbound", val |-> PyInt(0)]

NoCall == [op |-> "", raised |-> "", val |-> PyInt(0)]

Fresh ==
    /\ no_fdp = Unbound /\ fdp = Unbound
    /\ no_fdp_summary = Unbound /\ fdp_summary = Unbound
    /\ output_dir = FALSE /\ artifacts = {} /\ report = <<>> /\ opened = {}
    /\ raised = "" /\ exit_code = -1 /\ ret = NoCall

\* sys.exit(1)
Exit1 == pc' = "exit" /\ exit_code' = 1 /\ raised' = raised

\* An exception leaves main: the interpreter exits with status 1.
Abort(e) == pc' = "exit" /\ exit_code' = 1 /\ raised' = e

\* -------------------------------------------------------------------- main

Init ==
    /\ pc = "check_args"
    /\ argc \in {2, 3, 4}
    /\ dirs \in [no_fdp : MainDirs, fdp : MainDirs]
    /\ Fresh

\* if len(sys.argv) != 3
WrongArgCount == argc # 3

CheckArgs ==
    /\ pc = "check_args"
    /\ IF WrongArgCount THEN Exit1
       ELSE pc' = "check_no_fdp_dir" /\ UNCHANGED <<exit_code, raised>>
    /\ UNCHANGED <<argc, dirs, no_fdp, fdp, no_fdp_summary, fdp_summary, output_dir,
                   artifacts, report, opened, ret>>

\* if not os.path.exists(no_fdp_dir)
NoFdpDirMissing == ~dirs.no_fdp.exists

CheckNoFdpDir ==
    /\ pc = "check_no_fdp_dir"
    /\ IF NoFdpDirMissing THEN Exit1
       ELSE pc' = "check_fdp_dir" /\ UNCHANGED <<exit_code, raised>>
    /\ UNCHANGED <<argc, dirs, no_fdp, fdp, no_fdp_summary, fdp_summary, output_dir,
                   artifacts, report, opened, ret>>

\* A faulty second check that tests the first directory again.
NoFdpDirCheckedTwice == ~dirs.no_fdp.exists

\* if not os.path.exists(fdp_dir)
FdpDirMissing == ~dirs.fdp.exists

CheckFdpDir ==
    /\ pc = "check_fdp_dir"
    /\ IF FdpDirMissing THEN Exit1
       ELSE pc' = "load_no_fdp" /\ UNCHANGED <<exit_code, raised>>
    /\ UNCHANGED <<argc, dirs, no_fdp, fdp, no_fdp_summary, fdp_summary, output_dir,
                   artifacts, report, opened, ret>>

\* no_fdp = LatencyAnalyzer(no_fdp_dir)
LoadNoFdp ==
    /\ pc = "load_no_fdp"
    /\ LET a == LatencyAnalyzer(dirs.no_fdp) IN
       /\ opened' = opened \cup {<<"no_fdp", n>> : n \in FilesOpened(dirs.no_fdp)}
       /\ IF a.raised # "" THEN Abort(a.raised) /\ UNCHANGED no_fdp
          ELSE no_fdp' = a /\ pc' = "load_fdp" /\ UNCHANGED <<exit_code, raised>>
    /\ UNCHANGED <<argc, dirs, fdp, no_fdp_summary, fdp_summary, output_dir,
                   artifacts, report, ret>>

\* fdp = LatencyAnalyzer(fdp_dir)
LoadFdp ==
    /\ pc = "load_fdp"
    /\ LET a == LatencyAnalyzer(dirs.fdp) IN
       /\ opened' = opened \cup {<<"fdp", n>> : n \in FilesOpened(dirs.fdp)}
       /\ IF a.raised # "" THEN Abort(a.raised) /\ UNCHANGED fdp
          ELSE fdp' = a /\ pc' = "summarize_no_fdp" /\ UNCHANGED <<exit_code, raised>>
    /\ UNCHANGED <<argc, dirs, no_fdp, no_fdp_summary, fdp_summary, output_dir,
                   artifacts, report, ret>>

\* no_fdp_summary = no_fdp.get_summary()
SummarizeNoFdp ==
    /\ pc = "summarize_no_fdp"
    /\ LET r == get_summary(no_fdp.val) IN
       IF r.raised # "" THEN Abort(r.raised) /\ UNCHANGED no_fdp_summary
       ELSE no_fdp_summary' = r /\ pc' = "summarize_fdp" /\ UNCHANGED <<exit_code, raised>>
    /\ UNCHANGED <<argc, dirs, no_fdp, fdp, fdp_summary, output_dir, artifacts, report,
                   opened, ret>>

\* fdp_summary = fdp.get_summary()
SummarizeFdp ==
    /\ pc = "summarize_fdp"
    /\ LET r == get_summary(fdp.val) IN
       IF r.raised # "" THEN Abort(r.raised) /\ UNCHANGED fdp_summary
       ELSE fdp_summary' = r /\ pc' = "print_counts" /\ UNCHANGED <<exit_code, raised>>
    /\ UNCHANGED <<argc, dirs, no_fdp, fdp, no_fdp_summary, output_dir, artifacts, report,
                   opened, ret>>

\* summary['latencies']['victim_read']['count'] can be read.
HasVictimReadCount(summary) == "victim_read" \in DOMAIN summary.latencies

\* The two prints of the victim read counts.
PrintCounts ==
    /\ pc = "print_counts"
    /\ IF HasVictimReadCount(no_fdp_summary.val) /\ HasVictimReadCount(fdp_summary.val)
       THEN pc' = "make_output_dir" /\ UNCHANGED <<exit_code, raised>>
       ELSE Abort("KeyError")
    /\ UNCHANGED <<argc, dirs, no_fdp, fdp, no_fdp_summary, fdp_summary, output_dir,
                   artifacts, report, opened, ret>>

\* output_dir.mkdir(exist_ok=True)
MakeOutputDir ==
    /\ pc = "make_output_dir"
    /\ output_dir' = TRUE
    /\ pc' = "plot_victim_read"
    /\ UNCHANGED <<argc, dirs, no_fdp, fdp, no_fdp_summary, fdp_summary, artifacts,
                   report, opened, raised, exit_code, ret>>

\* plot_cdf_comparison and plot_tail_latency_comparison; both analyzers'
\* latencies always hold the key victim_read.
PlotVictimRead ==
    /\ pc = "plot_victim_read"
    /\ artifacts' = artifacts \cup
          (IF "victim_read" \in DOMAIN no_fdp.val.latencies
              /\ "victim_read" \in DOMAIN fdp.val.latencies
           THEN {"cdf_victim_read.png", "tail_latency_comparison.png"} ELSE {})
    /\ pc' = "plot_waf"
    /\ UNCHANGED <<argc, dirs, no_fdp, fdp, no_fdp_summary, fdp_summary, output_dir,
                   report, opened, raised, exit_code, ret>>

\* plot_waf_comparison
PlotWaf ==
    /\ pc = "plot_waf"
    /\ artifacts' = artifacts \cup {"waf_comparison.png"}
    /\ pc' = "plot_throughput"
    /\ UNCHANGED <<argc, dirs, no_fdp, fdp, no_fdp_summary, fdp_summary, output_dir,
                   report, opened, raised, exit_code, ret>>

\* plot_throughput_comparison saves an image when it is called and both
\* mappings hold overwrite_iops.
ThroughputPlotted(no_fdp_tp, fdp_tp) ==
    /\ DOMAIN no_fdp_tp # {} /\ DOMAIN fdp_tp # {}
    /\ "overwrite_iops" \in DOMAIN no_fdp_tp /\ "overwrite_iops" \in DOMAIN fdp_tp

PlotThroughput ==
    /\ pc = "plot_throughput"
    /\ artifacts' = artifacts \cup
          (IF ThroughputPlotted(no_fdp_summary.val.throughput, fdp_summary.val.throughput)
           THEN {"throughput_comparison.png"} ELSE {})
    /\ pc' = "generate_report"
    /\ UNCHANGED <<argc, dirs, no_fdp, fdp, no_fdp_summary, fdp_summary, output_dir,
                   report, opened, raised, exit_code, ret>>

\* generate_report(no_fdp_summary, fdp_summary, output_dir): open() creates the
\* file, and what was written before an exception stays in it.
GenerateReport ==
    /\ pc = "generate_report"
    /\ LET r == generate_report(no_fdp_summary.val, fdp_summary.val) IN
       /\ artifacts' = artifacts \cup {"analysis_report.txt"}
       /\ report' = r.lines
       /\ IF r.raised # "" THEN Abort(r.raised)
          ELSE pc' = "finish" /\ UNCHANGED <<exit_code, raised>>
    /\ UNCHANGED <<argc, dirs, no_fdp, fdp, no_fdp_summary, fdp_summary, output_dir,
                   opened, ret>>

\* main returns: the interpreter exits with status 0.
Finish ==
    /\ pc = "finish"
    /\ pc' = "exit"
    /\ exit_code' = 0
    /\ UNCHANGED <<argc, dirs, no_fdp, fdp, no_fdp_summary, fdp_summary, output_dir,
                   artifacts, report, opened, raised, ret>>

Next ==
    \/ CheckArgs \/ CheckNoFdpDir \/ CheckFdpDir
    \/ LoadNoFdp \/ LoadFdp \/ SummarizeNoFdp \/ SummarizeFdp
    \/ PrintCounts \/ MakeOutputDir
    \/ PlotVictimRead \/ PlotWaf \/ PlotThroughput
    \/ GenerateReport \/ Finish

Spec == Init /\ [][Next]_vars

\* ------------------------------------------- generate_report called alone

\* generate_report is about to be called on the summaries of two directories.
InitReport ==
    /\ pc = "generate_report"
    /\ argc = 3
    /\ dirs \in [no_fdp : ReportDirs, fdp : ReportDirs]
    /\ no_fdp = LatencyAnalyzer(dirs.no_fdp)
    /\ fdp = LatencyAnalyzer(dirs.fdp)
    /\ no_fdp_summary = get_summary(no_fdp.val)
    /\ fdp_summary = get_summary(fdp.val)
    /\ output_dir = TRUE /\ artifacts = {} /\ report = <<>>
    /\ opened = {<<"no_fdp", n>> : n \in FilesOpened(dirs.no_fdp)}
                \cup {<<"fdp", n>> : n \in FilesOpened(dirs.fdp)}
    /\ raised = "" /\ exit_code = -1 /\ ret = NoCall

NextReport == GenerateReport

SpecReport == InitReport /\ [][NextReport]_vars

\* ------------------------------------------ LatencyAnalyzer used directly

InitAnalyzer ==
    /\ pc = "new"
    /\ argc = 3
    /\ dirs \in [no_fdp : AnalyzerDirs, fdp : {MissingDir}]
    /\ Fresh

\* LatencyAnalyzer(result_dir)
Construct ==
    /\ pc = "new"
    /\ LET a == LatencyAnalyzer(dirs.no_fdp) IN
       /\ opened' = {<<"no_fdp", n>> : n \in FilesOpened(dirs.no_fdp)}
       /\ IF a.raised # "" THEN pc' = "raised" /\ raised' = a.raised /\ UNCHANGED no_fdp
          ELSE pc' = "object" /\ no_fdp' = a /\ UNCHANGED raised
    /\ UNCHANGED <<argc, dirs, fdp, no_fdp_summary, fdp_summary, output_dir, artifacts,
                   report, exit_code, ret>>

Returned(op, r) == ret' = [op |-> op, raised |-> r.raised, val |-> r.val]

CallCalculateThroughput ==
    /\ pc = "object"
    /\ Returned("calculate_throughput", calculate_throughput(no_fdp.val.metadata))
    /\ pc' = "returned"
    /\ UNCHANGED <<argc, dirs, no_fdp, fdp, no_fdp_summary, fdp_summary, output_dir,
                   artifacts, report, opened, raised, exit_code>>

CallCalculateWaf ==
    /\ pc = "object"
    /\ Returned("calculate_waf", calculate_waf(no_fdp.val.metadata))
    /\ pc' = "returned"
    /\ UNCHANGED <<argc, dirs, no_fdp, fdp, no_fdp_summary, fdp_summary, output_dir,
                   artifacts, report, opened, raised, exit_code>>

CallGetSummary ==
    /\ pc = "object"
    /\ Returned("get_summary", get_summary(no_fdp.val))
    /\ pc' = "returned"
    /\ UNCHANGED <<argc, dirs, no_fdp, fdp, no_fdp_summary, fdp_summary, output_dir,
                   artifacts, report, opened, raised, exit_code>>

NextAnalyzer ==
    \/ Construct
    \/ CallCalculateThroughput \/ CallCalculateWaf \/ CallGetSummary

SpecAnalyzer == InitAnalyzer /\ [][NextAnalyzer]_vars

\* ------------------------------------------------------------ properties

\* generate_report has run: open() created analysis_report.txt.
Reported == "analysis_report.txt" \in artifacts

\* The kinds of the lines analysis_report.txt holds.
ReportKinds == {report[i].kind : i \in 1..Len(report)}

\* The metrics that have a row in the percentile table.
RowMetrics == {report[i].metric : i \in {k \in 1..Len(report) : report[k].kind = "row"}}

HasOverwriteIops(summary) == "overwrite_iops" \in DOMAIN summary.throughput

HasVictimRead(summary) == "victim_read" \in DOMAIN summary.latencies

\* The throughput section cannot fail: treatment has overwrite_iops whenever
\* baseline has it.
ThroughputSectionSafe ==
    HasOverwriteIops(no_fdp_summary.val) => HasOverwriteIops(fdp_summary.val)

\* C1: whenever victim_read is absent from either summary, generate_report
\* completes without error and the report holds neither percentile table rows
\* nor the 'P99 latency improved by' line.  (Stated for the pairs whose
\* throughput section cannot fail.)
C1_AbsentVictimReadIsOmitted ==
    (/\ Reported
     /\ ThroughputSectionSafe
     /\ ~(HasVictimRead(no_fdp_summary.val) /\ HasVictimRead(fdp_summary.val)))
    => (/\ raised = ""
        /\ "row" \notin ReportKinds
        /\ "table_header" \notin ReportKinds
        /\ "p99_finding" \notin ReportKinds)

\* C2: the overwrite_iops lines are written if and only if both throughput
\* mappings hold overwrite_iops, and when only one holds it generate_report
\* still completes without error.  (Stated for the pairs whose baseline has no
\* victim_read, so that the key findings section writes nothing.)
C2_ThroughputLinesIffBoth ==
    (Reported /\ ~HasVictimRead(no_fdp_summary.val))
    => (/\ ("iops" \in ReportKinds)
              <=> (HasOverwriteIops(no_fdp_summary.val) /\ HasOverwriteIops(fdp_summary.val))
        /\ (HasOverwriteIops(no_fdp_summary.val) # HasOverwriteIops(fdp_summary.val))
              => raised = "")

\* C3: when both summaries hold victim_read statistics and the baseline p99 is
\* 0, the P99 row is omitted and the report is produced without a division by
\* zero, in the table and in the key findings.  (Stated for the pairs whose
\* throughput section cannot fail.)
C3_ZeroBaselineNeverDivides ==
    (/\ Reported
     /\ ThroughputSectionSafe
     /\ HasVictimRead(no_fdp_summary.val) /\ HasVictimRead(fdp_summary.val)
     /\ IsZero(no_fdp_summary.val.latencies["victim_read"]["p99"]))
    => (/\ raised = ""
        /\ "p99" \notin RowMetrics
        /\ "p99_finding" \notin ReportKinds)

\* The configuration main rejects: a wrong argument count or a missing directory.
ConfigError == argc # 3 \/ ~dirs.no_fdp.exists \/ ~dirs.fdp.exists

\* The victim_read latency file of the directory is absent or empty.
NoVictimReadSamples(dir) ==
    \/ ~FileExists(dir, LatFile("victim_read"))
    \/ dir.files[LatFile("victim_read")] = <<>>

\* C4: a run of main on two existing directories of which one has an absent or
\* empty victim_read latency file ends with exit code 0 and with
\* analysis_report.txt written.  (Stated for the runs in which loading and
\* summarizing both directories succeeded.)
C4_MissingVictimReadIsNotAnError ==
    (/\ pc = "exit"
     /\ ~ConfigError
     /\ no_fdp_summary.raised = "" /\ fdp_summary.raised = ""
     /\ NoVictimReadSamples(dirs.no_fdp) \/ NoVictimReadSamples(dirs.fdp))
    => (exit_code = 0 /\ raised = "" /\ Reported)

\* The value of a key, an absent key counting as 0.
OrZero(metadata, key) == Get(metadata, key, PyInt(0))

AllNumeric(metadata) == \A k \in DOMAIN metadata : IsNum(metadata[k])

\* C5: calculate_throughput returns normally whichever keys are absent;
\* warmup_iops is present iff warmup_duration > 0 and is then warmup_ops /
\* warmup_duration, overwrite_iops is present iff overwrite_duration > 0 and is
\* then (overwrites + victim_reads) / overwrite_duration, an absent key counting
\* as 0.  (Stated for the mappings whose values are all numbers.)
C5_ThroughputToleratesAbsentKeys ==
    (ret.op = "calculate_throughput" /\ AllNumeric(no_fdp.val.metadata))
    => LET md == no_fdp.val.metadata
           wd == OrZero(md, "warmup_duration")
           od == OrZero(md, "overwrite_duration")
       IN /\ ret.raised = ""
          /\ ("warmup_iops" \in DOMAIN ret.val) <=> IsPos(wd)
          /\ IsPos(wd) => Eq(ret.val["warmup_iops"], Div(OrZero(md, "warmup_ops"), wd))
          /\ ("overwrite_iops" \in DOMAIN ret.val) <=> IsPos(od)
          /\ IsPos(od) => Eq(ret.val["overwrite_iops"],
                             Div(Add(OrZero(md, "overwrites"), OrZero(md, "victim_reads")), od))

WafKeys == {"warmup_ops", "victim_writes", "noisy_writes", "overwrites"}

\* Each of the four write counts is absent or a non-negative number.
WafInputsNonNegative(metadata) ==
    \A k \in WafKeys : k \in DOMAIN metadata => (IsNum(metadata[k]) /\ metadata[k].n >= 0)

HostWrites(metadata) ==
    Add(Add(Add(OrZero(metadata, "warmup_ops"), OrZero(metadata, "victim_writes")),
            OrZero(metadata, "noisy_writes")), OrZero(metadata, "overwrites"))

\* C6: for write counts that are each absent or non-negative, calculate_waf
\* returns a value in [1.0, 5.0], and exactly 1.0 when their sum is 0.
C6_WafWithinBounds ==
    (ret.op = "calculate_waf" /\ WafInputsNonNegative(no_fdp.val.metadata))
    => (/\ ret.raised = ""
        /\ Le(PyInt(1), ret.val) /\ Le(ret.val, PyInt(5))
        /\ IsZero(HostWrites(no_fdp.val.metadata)) => ret.val = PyFloat(1, 1))

\* calculate_waf returned an estimate above 1.0 for non-negative write counts,
\* some of them overwrites.
C6_Witness ==
    /\ ret.op = "calculate_waf"
    /\ WafInputsNonNegative(no_fdp.val.metadata)
    /\ IsPos(OrZero(no_fdp.val.metadata, "overwrites"))
    /\ IsPos(OrZero(no_fdp.val.metadata, "victim_writes"))
    /\ ret.raised = "" /\ Lt(PyInt(1), ret.val)

\* C7: on a wrong argument count or a missing directory main exits with code 1
\* and, at every point of the run, no LatencyAnalyzer has been constructed, no
\* input file opened and no output directory created.
C7_ConfigCheckedBeforeLoading ==
    ConfigError
    => (/\ no_fdp = Unbound /\ fdp = Unbound
        /\ no_fdp_summary = Unbound /\ fdp_summary = Unbound
        /\ opened = {}
        /\ ~output_dir /\ artifacts = {}
        /\ pc \in {"check_args", "check_no_fdp_dir", "check_fdp_dir", "exit"}
        /\ pc = "exit" => (exit_code = 1 /\ raised = ""))

\* main exited with code 1 because the second directory is missing, the first
\* one existing and holding files.
C7_Witness ==
    /\ pc = "exit" /\ exit_code = 1
    /\ argc = 3
    /\ dirs.no_fdp.exists /\ DOMAIN dirs.no_fdp.files # {}
    /\ ~dirs.fdp.exists
    /\ no_fdp = Unbound /\ opened = {}

\* A latency file of the directory holds a token that is no number.
HasMalformedSamples(dir) ==
    \E i \in 1..Len(Phases) :
        /\ FileExists(dir, LatFile(Phases[i]))
        /\ LET rows == dir.files[LatFile(Phases[i])]
           IN \E r \in 1..Len(rows) : \E c \in 1..Len(rows[r]) : rows[r][c] \notin Digits

\* C8: when a latency file of either directory holds a non-numeric token, the
\* parse failure leaves main and no output exists at any point of the run: no
\* output directory, no image, no analysis_report.txt.
C8_ParseFailureAbortsBeforeOutput ==
    (~ConfigError /\ (HasMalformedSamples(dirs.no_fdp) \/ HasMalformedSamples(dirs.fdp)))
    => (/\ ~output_dir /\ artifacts = {} /\ report = <<>>
        /\ pc \in {"check_args", "check_no_fdp_dir", "check_fdp_dir",
                   "load_no_fdp", "load_fdp", "exit"}
        /\ pc = "exit" => (raised = "ValueError" /\ exit_code = 1))

\* main aborted with the parse failure of a treatment file, after the baseline
\* directory, which has samples, was loaded.
C8_Witness ==
    /\ pc = "exit" /\ raised = "ValueError"
    /\ ~HasMalformedSamples(dirs.no_fdp) /\ HasMalformedSamples(dirs.fdp)
    /\ ~NoVictimReadSamples(dirs.no_fdp) /\ ~NoVictimReadSamples(dirs.fdp)
    /\ no_fdp.raised = "" /\ fdp = Unbound
    /\ ~output_dir

\* The number of samples the phase's file holds, 0 for an absent file.
SampleCount(dir, phase) ==
    IF FileExists(dir, LatFile(phase)) THEN Len(Flatten(dir.files[LatFile(phase)])) ELSE 0

\* C9: the summary's latencies hold a phase if and only if the phase's file
\* holds at least one sample, and the count is then the number of samples in
\* the file, a file of exactly one value included.  (Stated for the directories
\* whose throughput and WAF calculations return.)
C9_SummaryPhasesMatchSamples ==
    (/\ ret.op = "get_summary"
     /\ calculate_throughput(no_fdp.val.metadata).raised = ""
     /\ calculate_waf(no_fdp.val.metadata).raised = "")
    => (/\ ret.raised = ""
        /\ \A i \in 1..Len(Phases) :
              LET n == SampleCount(dirs.no_fdp, Phases[i])
              IN /\ (Phases[i] \in DOMAIN ret.val.latencies) <=> (n >= 1)
                 /\ n >= 1 => ret.val.latencies[Phases[i]]["count"] = PyInt(n))

\* The documented three-line metadata file.
ExampleMetaFile ==
    << <<"test_name", "=", "run", "1">>, <<"warmup_ops", "=", "5", "0", "0">>,
       <<"warmup_duration", "=", "5", ".", "0">> >>

\* The pieces before and after the first '=' of a line holding one.
KeyPieces(line) ==
    LET t == Strip(line) IN SubSeq(t, 1, (CHOOSE i \in 1..Len(t) :
                                   t[i] = "=" /\ \A j \in 1..(i - 1) : t[j] # "=") - 1)

ValuePieces(line) == LET t == Strip(line) IN SubSeq(t, Len(KeyPieces(line)) + 2, Len(t))

HasEquals(line) == \E i \in 1..Len(line) : line[i] = "="

\* What the claim says a value text is stored as.
StoredAsClaimed(v, got) ==
    IF Contains(v, ".") /\ FloatParses(v) THEN got.t = "float" /\ got = FloatOf(v)
    ELSE IF ~Contains(v, ".") /\ IntParses(v) THEN got.t = "int" /\ got = IntOf(v)
    ELSE got = PyStr(Join(v))

\* C10: loading metadata.txt never fails; a line without '=' gives no key; a
\* line with '=' is split at its first '=' and its value stored as a float if
\* it holds a '.' and parses as a number, as an int if it holds no '.' and
\* parses as an integer, otherwise as the string itself, a later line replacing
\* an earlier one of the same key; the documented file loads as the string
\* "run1", the int 500 and the float 5.0.
C10_MetadataLoadedAsDocumented ==
    (pc # "new" /\ FileExists(dirs.no_fdp, MetadataFile)
        /\ DOMAIN dirs.no_fdp.files = {MetadataFile})
    => LET lines == dirs.no_fdp.files[MetadataFile]
           md == no_fdp.val.metadata
           assigning == {i \in 1..Len(lines) : HasEquals(lines[i])}
       IN /\ pc # "raised" /\ no_fdp.raised = ""
          /\ DOMAIN md = {Join(KeyPieces(lines[i])) : i \in assigning}
          /\ \A i \in assigning :
                (\A k \in assigning : k > i => KeyPieces(lines[k]) # KeyPieces(lines[i]))
                => StoredAsClaimed(ValuePieces(lines[i]), md[Join(KeyPieces(lines[i]))])
          /\ lines = ExampleMetaFile
                => md = ("test_name" :> PyStr("run1")) @@ ("warmup_ops" :> PyInt(500))
                        @@ ("warmup_duration" :> PyFloat(5, 1))

\* The documented file was loaded into a string, an int and a float.
C10_Witness ==
    /\ pc = "object"
    /\ FileExists(dirs.no_fdp, MetadataFile)
    /\ dirs.no_fdp.files[MetadataFile] = ExampleMetaFile
    /\ DOMAIN no_fdp.val.metadata = {"test_name", "warmup_ops", "warmup_duration"}
    /\ no_fdp.val.metadata["warmup_duration"].t = "float"
    /\ no_fdp.val.metadata["warmup_ops"].t = "int"
    /\ no_fdp.val.metadata["test_name"].t = "str"

=============================================================================
